---------------------------- MODULE Spec2Model ----------------------------
(***************************************************************************)
(* Model of generate-junit-tests.py: the generator that turns a manifest   *)
(* of JSON conformance fixtures (read from stdin, one line per fixture)    *)
(* into JUnit test methods (written to stdout).                            *)
(*                                                                         *)
(* A Python str is modelled as a sequence of one-character strings, so     *)
(* that strip, split, slicing, the separator regex and upper/lower are     *)
(* computed character by character.  A line of output is a TLA+ string     *)
(* built by concatenation (\o), as the f-strings of print_test build it.   *)
(***************************************************************************)
EXTENDS Integers, Sequences, FiniteSets, TLC

VARIABLES
  manifest,               \* the lines read from sys.stdin so far, in order
  test_dir,               \* sys.argv[1]
  tests_by_name,          \* the Counter: identifier -> number of entries seen
  tests,                  \* the list of entry tuples
  test_name_pascal_case,  \* module global left by the last data line parsed
  test_instance,          \* module global left by the last data line parsed
  pending,                \* the rest of the list the current render loop walks
  out,                    \* the lines printed to stdout so far
  pc,                     \* position in the script
  err,                    \* the exception that ended the run, or "none"
  nameA, nameB,           \* two subject names handed to the identifier deriver
  idA, idB,               \* the identifiers derived from them
  pcId                    \* position of the identifier-deriver run

vars == <<manifest, test_dir, tests_by_name, tests, test_name_pascal_case,
          test_instance, pending, out, pc, err, nameA, nameB, idA, idB, pcId>>

genVars == <<manifest, test_dir, tests_by_name, tests, test_name_pascal_case,
             test_instance, pending, out, pc, err>>

idVars == <<nameA, nameB, idA, idB, pcId>>

---------------------------------------------------------------------------
(* Bounds *)

\* the number of manifest lines read before end of input
MaxLines == 3

\* the length of the subject names handed to the identifier deriver
MaxNameLen == 3

---------------------------------------------------------------------------
(* Characters and the str methods the script uses *)

DigitChars == <<"0","1","2","3","4","5","6","7","8","9">>

UpperChars ==
  <<"A","B","C","D","E","F","G","H","I","J","K","L","M",
    "N","O","P","Q","R","S","T","U","V","W","X","Y","Z">>

LowerChars ==
  <<"a","b","c","d","e","f","g","h","i","j","k","l","m",
    "n","o","p","q","r","s","t","u","v","w","x","y","z">>

\* the characters str.strip() removes
Whitespace == {" ", "\t", "\n", "\r"}

Range(s) == { s[i] : i \in 1..Len(s) }

\* the characters the class [a-zA-Z0-9] matches, in code point order
AsciiAlnum == DigitChars \o UpperChars \o LowerChars

IsAlnum(c) == c \in Range(AsciiAlnum)

\* relative code point of an ASCII letter or digit (str comparison order)
CodePoint(c) == CHOOSE i \in 1..Len(AsciiAlnum) : AsciiAlnum[i] = c

\* str.upper() / str.lower() on one character
UpperChar(c) ==
  IF \E i \in 1..Len(LowerChars) : LowerChars[i] = c
  THEN UpperChars[CHOOSE i \in 1..Len(LowerChars) : LowerChars[i] = c]
  ELSE c

LowerChar(c) ==
  IF \E i \in 1..Len(UpperChars) : UpperChars[i] = c
  THEN LowerChars[CHOOSE i \in 1..Len(UpperChars) : UpperChars[i] = c]
  ELSE c

upper(s) == [ i \in 1..Len(s) |-> UpperChar(s[i]) ]

lower(s) == [ i \in 1..Len(s) |-> LowerChar(s[i]) ]

RECURSIVE lstrip(_)
lstrip(s) ==
  IF s # <<>> /\ s[1] \in Whitespace THEN lstrip(Tail(s)) ELSE s

RECURSIVE rstrip(_)
rstrip(s) ==
  IF s # <<>> /\ s[Len(s)] \in Whitespace
  THEN rstrip(SubSeq(s, 1, Len(s) - 1))
  ELSE s

\* str.strip()
strip(s) == rstrip(lstrip(s))

\* str.startswith(p)
startswith(s, p) == Len(s) >= Len(p) /\ SubSeq(s, 1, Len(p)) = p

\* p in s
contains(s, p) ==
  \E i \in 1..(Len(s) - Len(p) + 1) : SubSeq(s, i, i + Len(p) - 1) = p

\* s.split(c) for a one-character separator: every occurrence of c ends a
\* field, empty fields are kept
RECURSIVE SplitFrom(_, _, _)
SplitFrom(s, c, cur) ==
  IF s = <<>> THEN <<cur>>
  ELSE IF s[1] = c THEN <<cur>> \o SplitFrom(Tail(s), c, <<>>)
  ELSE SplitFrom(Tail(s), c, Append(cur, s[1]))

split(s, c) == SplitFrom(s, c, <<>>)

\* s[start:stop] with Python's treatment of negative and out-of-range indices
SliceIndex(n, i) ==
  IF i < 0 THEN (IF n + i < 0 THEN 0 ELSE n + i)
  ELSE (IF i > n THEN n ELSE i)

Slice(s, start, stop) ==
  SubSeq(s, SliceIndex(Len(s), start) + 1, SliceIndex(Len(s), stop))

\* sep.split(s) for sep = re.compile("[^a-zA-Z0-9]+"): every maximal run of
\* characters outside [a-zA-Z0-9] ends a piece; empty pieces at the ends
\* are kept
RECURSIVE SkipSep(_)
SkipSep(s) ==
  IF s # <<>> /\ ~IsAlnum(s[1]) THEN SkipSep(Tail(s)) ELSE s

RECURSIVE SepSplitFrom(_, _)
SepSplitFrom(s, cur) ==
  IF s = <<>> THEN <<cur>>
  ELSE IF IsAlnum(s[1]) THEN SepSplitFrom(Tail(s), Append(cur, s[1]))
  ELSE <<cur>> \o SepSplitFrom(SkipSep(s), <<>>)

sep_split(s) == SepSplitFrom(s, <<>>)

\* "".join(list)
RECURSIVE join(_)
join(list) ==
  IF list = <<>> THEN <<>> ELSE list[1] \o join(Tail(list))

\* str(n) for n >= 0
RECURSIVE str(_)
str(n) ==
  IF n < 10 THEN <<DigitChars[n + 1]>>
  ELSE str(n \div 10) \o <<DigitChars[(n % 10) + 1]>>

\* the text of a str, for interpolation into a printed line
RECURSIVE Text(_)
Text(s) ==
  IF s = <<>> THEN "" ELSE s[1] \o Text(Tail(s))

---------------------------------------------------------------------------
(* The manifest lines and configuration values the runs draw from *)

\* "PASS: y_foo.json\n"
LinePassYFoo ==
  <<"P","A","S","S",":"," ","y","_","f","o","o",".","j","s","o","n","\n">>

\* "PASS: y-FOO!.json\n"
LinePassYFooPunct ==
  <<"P","A","S","S",":"," ","y","-","F","O","O","!",".","j","s","o","n","\n">>

\* "pass: n_foo.json\n"
LineLowerPassNFoo ==
  <<"p","a","s","s",":"," ","n","_","f","o","o",".","j","s","o","n","\n">>

\* "FAIL: y_PASS.json\n"
LineFailYPass ==
  <<"F","A","I","L",":"," ","y","_","P","A","S","S",".","j","s","o","n","\n">>

\* "FAIL: n_foo_2.json\n"
LineFailNFoo2 ==
  <<"F","A","I","L",":"," ","n","_","f","o","o","_","2",".","j","s","o","n","\n">>

\* "  FAIL : n_.json\n"
LineFailNEmpty ==
  <<" "," ","F","A","I","L"," ",":"," ","n","_",".","j","s","o","n","\n">>

\* "PASS: n_bar.json: ok\n"
LinePassNBar ==
  <<"P","A","S","S",":"," ","n","_","b","a","r",".","j","s","o","n",":"," ","o","k","\n">>

\* "\n"
LineBlank ==
  <<"\n">>

\* "# this is ignored" (the last line of a file without a final newline)
LineComment ==
  <<"#"," ","t","h","i","s"," ","i","s"," ","i","g","n","o","r","e","d">>

\* "  #PASS: y_foo.json\n"
LineCommentData ==
  <<" "," ","#","P","A","S","S",":"," ","y","_","f","o","o",".","j","s","o","n","\n">>

\* "PASS: x_foo.json\n"
LineBadPolarity ==
  <<"P","A","S","S",":"," ","x","_","f","o","o",".","j","s","o","n","\n">>

\* "PASS\n"
LineNoColon ==
  <<"P","A","S","S","\n">>

\* "FAIL:\n"
LineNoFilename ==
  <<"F","A","I","L",":","\n">>

Lines ==
  { LinePassYFoo, LinePassYFooPunct, LineLowerPassNFoo, LineFailYPass,
    LineFailNFoo2, LineFailNEmpty, LinePassNBar,
    LineBlank, LineComment, LineCommentData,
    LineBadPolarity, LineNoColon, LineNoFilename }

\* the values of sys.argv[1]
TestDirs == { <<"/","d">> }

\* the characters of the subject names handed to the identifier deriver
NameChars == { "a", "A", "-", "_" }

RECURSIVE SeqsUpTo(_, _)
SeqsUpTo(S, n) ==
  IF n = 0 THEN { <<>> }
  ELSE LET shorter == SeqsUpTo(S, n - 1)
       IN  shorter \cup { Append(s, c) : s \in shorter, c \in S }

BaseNames == SeqsUpTo(NameChars, MaxNameLen)

---------------------------------------------------------------------------
(* The parse loop, lines 15-42 *)

\* a global name no statement has bound yet
Unbound == <<"NameError">>

HASH == <<"#">>

COLON == ":"

PASS == <<"P","A","S","S">>

verbs == [ c \in {"y", "n"} |-> IF c = "y" THEN <<"y","e","s">> ELSE <<"n","o">> ]

\* the line as read, not stripped
StrippedLineRaw(raw) == raw

\* line 16
StrippedLine(raw) == strip(raw)

\* line 17, on the stripped line
IsSkipped(line) == startswith(line, HASH) \/ line = <<>>

\* line 20
parts(line) ==
  LET fields == split(line, COLON)
  IN  [ i \in 1..Len(fields) |-> strip(fields[i]) ]

\* PASS looked for in the first field only
supportedFirstField(line) == contains(parts(line)[1], PASS)

\* line 22
supported(line) == contains(line, PASS)

\* line 28
test_name(filename) == Slice(filename, 2, -5)

\* line 30
test_name_parts(name) == SelectSeq(sep_split(name), LAMBDA part : part # <<>>)

\* a capitalisation that leaves the rest of the part as written
CapitalizeFirstOnly(part) ==
  upper(Slice(part, 0, 1)) \o Slice(part, 1, Len(part))

\* line 34, one element of the list
Capitalize(part) ==
  upper(Slice(part, 0, 1)) \o lower(Slice(part, 1, Len(part)))

\* line 34
PascalCase(name_parts) ==
  join([ i \in 1..Len(name_parts) |-> Capitalize(name_parts[i]) ])

\* lines 30-34
Identifier(name) == PascalCase(test_name_parts(name))

\* tests_by_name[key], a Counter: 0 for a key it does not hold
CounterGet(counter, key) ==
  IF key \in DOMAIN counter THEN counter[key] ELSE 0

\* line 36
CounterIncrement(counter, key) ==
  [ k \in DOMAIN counter \cup {key} |->
      IF k = key THEN CounterGet(counter, key) + 1 ELSE counter[k] ]

\* a suffix that counts the collisions from zero
SuffixZeroBased(instance) ==
  IF instance = 1 THEN <<>> ELSE <<"_">> \o str(instance - 1)

\* a suffix without the separating underscore
SuffixNoUnderscore(instance) ==
  IF instance = 1 THEN <<>> ELSE str(instance)

\* line 40
Suffix(instance) ==
  IF instance = 1 THEN <<>> ELSE <<"_">> \o str(instance)

\* the exception a stripped data line raises in lines 24-32, or "none"
LineError(line) ==
  IF Len(parts(line)) < 2 THEN "IndexError"
  ELSE IF parts(line)[2] = <<>> THEN "IndexError"
  ELSE IF parts(line)[2][1] \notin DOMAIN verbs THEN "KeyError"
  ELSE "none"

\* line 42, the tuple appended for a data line
Entry(line, counter) ==
  LET filename == parts(line)[2]
      name     == Identifier(test_name(filename))
      instance == CounterGet(CounterIncrement(counter, name), name)
  IN  [ supported             |-> supported(line),
        yn                    |-> filename[1],
        filename              |-> filename,
        verb                  |-> verbs[filename[1]],
        test_name_pascal_case |-> name,
        test_instance         |-> instance,
        test_suffix           |-> Suffix(instance) ]

---------------------------------------------------------------------------
(* The sort, line 44 *)

\* str < str: lexicographic by code point
RECURSIVE StrLess(_, _)
StrLess(a, b) ==
  IF b = <<>> THEN FALSE
  ELSE IF a = <<>> THEN TRUE
  ELSE IF a[1] # b[1] THEN CodePoint(a[1]) < CodePoint(b[1])
  ELSE StrLess(Tail(a), Tail(b))

\* tuple < tuple for (int, str, int): the first differing position decides
KeyLess(a, b) ==
  IF a[1] # b[1] THEN a[1] < b[1]
  ELSE IF a[2] # b[2] THEN StrLess(a[2], b[2])
  ELSE a[3] < b[3]

\* the key the intended sort would use: each entry's own name and instance
SortKeyOwn(t) ==
  <<IF t.supported THEN 0 ELSE 1, t.test_name_pascal_case, t.test_instance>>

\* the key lambda of line 44: its second and third components are the module
\* globals, read when the sort runs
SortKey(t) ==
  <<IF t.supported THEN 0 ELSE 1, test_name_pascal_case, test_instance>>

\* list.sort is stable: an element goes after every element whose key is
\* not greater than its own
RECURSIVE InsertByKey(_, _)
InsertByKey(sorted, t) ==
  IF sorted = <<>> THEN <<t>>
  ELSE IF KeyLess(SortKey(t), SortKey(sorted[1])) THEN <<t>> \o sorted
  ELSE <<sorted[1]>> \o InsertByKey(Tail(sorted), t)

RECURSIVE SortedPrefix(_, _)
SortedPrefix(list, n) ==
  IF n = 0 THEN <<>> ELSE InsertByKey(SortedPrefix(list, n - 1), list[n])

Sorted(list) == SortedPrefix(list, Len(list))

---------------------------------------------------------------------------
(* The renderer, lines 46-78 *)

SupportedBanner ==
  "// SUPPORTED TESTS ///////////////////////////////////////////////////////////////////////////////"

UnsupportedBanner ==
  "// UNSUPPORTED TESTS /////////////////////////////////////////////////////////////////////////////"

\* lines 53-54
IgnoreLines(test) == IF ~test.supported THEN <<"@Ignore">> ELSE <<>>

\* line 55
Declaration(test) ==
  "public void " \o Text(test.verb) \o Text(test.test_name_pascal_case)
    \o Text(test.test_suffix) \o "() throws IOException {"

\* lines 56-57
CommentLines(test) ==
  << "    // This test is currently DISABLED because the implementation is known not to pass it.",
     "    // This is a \"" \o test.yn \o "\" test, so the file contains "
       \o (IF test.yn = "y" THEN "valid" ELSE "invalid") \o " JSON." >>

\* line 60
ParseCall(test) ==
  "        JustJson.parseValue(new String(Files.readAllBytes(new File(\""
    \o Text(test_dir) \o "/" \o Text(test.filename) \o "\").toPath())));"

\* the assertion chosen by the supported flag
AssertionBySupported(test) ==
  "    " \o (IF test.supported THEN "assertNull" ELSE "assertNotNull")
    \o "(problem);"

\* line 67
Assertion(test) ==
  "    " \o (IF test.yn = "y" THEN "assertNull" ELSE "assertNotNull")
    \o "(problem);"

\* lines 46-69: the lines one call prints
print_test(test) ==
  << "/**",
     " * " \o Text(test.filename),
     " */",
     "@Test" >>
  \o IgnoreLines(test)
  \o << Declaration(test) >>
  \o CommentLines(test)
  \o << "    IllegalArgumentException problem;",
        "    try {",
        ParseCall(test),
        "        problem = null;",
        "    }",
        "    catch(IllegalArgumentException e) {",
        "        problem = e;",
        "    }",
        "    ",
        Assertion(test),
        "}",
        "" >>

\* line 73, the list the first loop walks
SupportedTests == SelectSeq(tests, LAMBDA t : t.supported)

\* the second loop with the condition of the first
UnsupportedTestsSameFilter == SelectSeq(tests, LAMBDA t : t.supported)

\* line 77, the list the second loop walks
UnsupportedTests == SelectSeq(tests, LAMBDA t : ~t.supported)

---------------------------------------------------------------------------
(* The steps of the script *)

\* line 15: sys.stdin yields another line only after a line that ended in a
\* newline
CanRead ==
  /\ pc = "parse"
  /\ Len(manifest) < MaxLines
  /\ manifest # <<>> =>
       LET last == manifest[Len(manifest)] IN last[Len(last)] = "\n"

\* lines 15-18: a comment or blank line
SkipLine(raw) ==
  /\ CanRead
  /\ IsSkipped(StrippedLine(raw))
  /\ manifest' = Append(manifest, raw)
  /\ UNCHANGED <<test_dir, tests_by_name, tests, test_name_pascal_case,
                 test_instance, pending, out, pc, err>>
  /\ UNCHANGED idVars

\* a generator that prints each method as soon as its line is parsed
ParseLineStreaming(raw) ==
  /\ CanRead
  /\ ~IsSkipped(StrippedLine(raw))
  /\ LineError(StrippedLine(raw)) = "none"
  /\ LET entry == Entry(StrippedLine(raw), tests_by_name)
     IN  /\ tests_by_name' =
              CounterIncrement(tests_by_name, entry.test_name_pascal_case)
         /\ tests' = Append(tests, entry)
         /\ test_name_pascal_case' = entry.test_name_pascal_case
         /\ test_instance' = entry.test_instance
         /\ out' = out \o print_test(entry)
  /\ manifest' = Append(manifest, raw)
  /\ UNCHANGED <<test_dir, pending, pc, err>>
  /\ UNCHANGED idVars

\* lines 15-42: a data line
ParseLine(raw) ==
  /\ CanRead
  /\ ~IsSkipped(StrippedLine(raw))
  /\ LineError(StrippedLine(raw)) = "none"
  /\ LET entry == Entry(StrippedLine(raw), tests_by_name)
     IN  /\ tests_by_name' =
              CounterIncrement(tests_by_name, entry.test_name_pascal_case)
         /\ tests' = Append(tests, entry)
         /\ test_name_pascal_case' = entry.test_name_pascal_case
         /\ test_instance' = entry.test_instance
  /\ manifest' = Append(manifest, raw)
  /\ UNCHANGED <<test_dir, pending, out, pc, err>>
  /\ UNCHANGED idVars

\* lines 24, 26, 32: a data line that raises
ParseError(raw) ==
  /\ CanRead
  /\ ~IsSkipped(StrippedLine(raw))
  /\ LineError(StrippedLine(raw)) # "none"
  /\ manifest' = Append(manifest, raw)
  /\ pc' = "error"
  /\ err' = LineError(StrippedLine(raw))
  /\ UNCHANGED <<test_dir, tests_by_name, tests, test_name_pascal_case,
                 test_instance, pending, out>>
  /\ UNCHANGED idVars

\* the for loop ends at end of input, then line 44
SortTests ==
  /\ pc = "parse"
  /\ tests' = Sorted(tests)
  /\ pc' = "sorted"
  /\ UNCHANGED <<manifest, test_dir, tests_by_name, test_name_pascal_case,
                 test_instance, pending, out, err>>
  /\ UNCHANGED idVars

\* line 72, and the list of line 73 is built
PrintSupportedBanner ==
  /\ pc = "sorted"
  /\ out' = Append(out, SupportedBanner)
  /\ pending' = SupportedTests
  /\ pc' = "supported"
  /\ UNCHANGED <<manifest, test_dir, tests_by_name, tests,
                 test_name_pascal_case, test_instance, err>>
  /\ UNCHANGED idVars

\* line 74
PrintSupportedTest ==
  /\ pc = "supported"
  /\ pending # <<>>
  /\ out' = out \o print_test(Head(pending))
  /\ pending' = Tail(pending)
  /\ UNCHANGED <<manifest, test_dir, tests_by_name, tests,
                 test_name_pascal_case, test_instance, pc, err>>
  /\ UNCHANGED idVars

\* line 76, and the list of line 77 is built
PrintUnsupportedBanner ==
  /\ pc = "supported"
  /\ pending = <<>>
  /\ out' = Append(out, UnsupportedBanner)
  /\ pending' = UnsupportedTests
  /\ pc' = "unsupported"
  /\ UNCHANGED <<manifest, test_dir, tests_by_name, tests,
                 test_name_pascal_case, test_instance, err>>
  /\ UNCHANGED idVars

\* line 78
PrintUnsupportedTest ==
  /\ pc = "unsupported"
  /\ pending # <<>>
  /\ out' = out \o print_test(Head(pending))
  /\ pending' = Tail(pending)
  /\ UNCHANGED <<manifest, test_dir, tests_by_name, tests,
                 test_name_pascal_case, test_instance, pc, err>>
  /\ UNCHANGED idVars

\* the second loop ends and the script exits
Exit ==
  /\ pc = "unsupported"
  /\ pending = <<>>
  /\ pc' = "done"
  /\ UNCHANGED <<manifest, test_dir, tests_by_name, tests,
                 test_name_pascal_case, test_instance, pending, out, err>>
  /\ UNCHANGED idVars

---------------------------------------------------------------------------
(* The generator run *)

GenStart ==
  /\ manifest = <<>>
  /\ tests_by_name = <<>>
  /\ tests = <<>>
  /\ test_name_pascal_case = Unbound
  /\ test_instance = 0
  /\ pending = <<>>
  /\ out = <<>>
  /\ pc = "parse"
  /\ err = "none"

IdIdle ==
  /\ nameA = <<>>
  /\ nameB = <<>>
  /\ idA = Unbound
  /\ idB = Unbound
  /\ pcId = "idle"

Init ==
  /\ test_dir \in TestDirs
  /\ GenStart
  /\ IdIdle

Next ==
  \/ \E raw \in Lines : SkipLine(raw)
  \/ \E raw \in Lines : ParseLine(raw)
  \/ \E raw \in Lines : ParseError(raw)
  \/ SortTests
  \/ PrintSupportedBanner
  \/ PrintSupportedTest
  \/ PrintUnsupportedBanner
  \/ PrintUnsupportedTest
  \/ Exit

Spec == Init /\ [][Next]_vars

---------------------------------------------------------------------------
(* The identifier deriver alone, lines 30-34, on two subject names *)

Derive ==
  /\ pcId = "named"
  /\ idA' = Identifier(nameA)
  /\ idB' = Identifier(nameB)
  /\ pcId' = "derived"
  /\ UNCHANGED <<nameA, nameB>>
  /\ UNCHANGED genVars

InitId ==
  /\ test_dir \in TestDirs
  /\ GenStart
  /\ nameA \in BaseNames
  /\ nameB \in BaseNames
  /\ idA = Unbound
  /\ idB = Unbound
  /\ pcId = "named"

NextId == Derive

SpecId == InitId /\ [][NextId]_vars

---------------------------------------------------------------------------
(* Reading the manifest: what the manifest format says of a line *)

\* a blank line, or a line whose first non-whitespace character is '#'
IsIgnorable(raw) ==
  \A i \in 1..Len(raw) :
    (raw[i] \notin Whitespace /\ \A j \in 1..(i - 1) : raw[j] \in Whitespace)
      => raw[i] = "#"

\* the data lines read so far, in manifest order
DataLines == SelectSeq(manifest, LAMBDA raw : ~IsIgnorable(raw))

\* the literal PASS occurs somewhere in the line
HasPass(raw) ==
  \E i \in 1..(Len(raw) - 3) :
    raw[i] = "P" /\ raw[i+1] = "A" /\ raw[i+2] = "S" /\ raw[i+3] = "S"

\* no second field, or a filename that does not start with y or n
Malformed(raw) ==
  LET p == parts(strip(raw))
  IN  Len(p) < 2 \/ p[2] = <<>> \/ p[2][1] \notin {"y", "n"}

FilenameOf(raw) == parts(strip(raw))[2]

IdentifierOf(raw) == Identifier(test_name(FilenameOf(raw)))

\* the identifiers the data lines derive, in manifest order
IdentifiersOf(D) == [ k \in 1..Len(D) |-> IdentifierOf(D[k]) ]

\* how many of the first k identifiers are the k-th
OccurrenceOf(ids, k) ==
  Cardinality({ i \in 1..k : ids[i] = ids[k] })

\* the method name a data line is to be rendered with: the verb of its
\* polarity, its identifier, and _n from its second occurrence on
ExpectedName(filename, identifier, occurrence) ==
  (IF filename[1] = "y" THEN "yes" ELSE "no")
    \o Text(identifier)
    \o (IF occurrence = 1 THEN "" ELSE "_" \o Text(str(occurrence)))

(* Reading the output: the method blocks printed so far *)

BlockStarts == { i \in 1..Len(out) : out[i] = "/**" }

UnsupportedBannerAt == { i \in 1..Len(out) : out[i] = UnsupportedBanner }

IsIgnoredAt(i) == out[i + 4] = "@Ignore"

DeclIndex(i) == IF IsIgnoredAt(i) THEN i + 5 ELSE i + 4

\* the doc comment line and the declaration each data line is to be
\* rendered with
ExpectedMethods(D) ==
  LET ids == IdentifiersOf(D)
  IN  [ k \in 1..Len(D) |->
        LET filename == FilenameOf(D[k])
        IN  [ doc  |-> " * " \o Text(filename),
              decl |-> "public void "
                         \o ExpectedName(filename, ids[k], OccurrenceOf(ids, k))
                         \o "() throws IOException {" ] ]

\* the block that starts at line i of the output is the method e
Renders(i, e) ==
  /\ out[i + 1] = e.doc
  /\ out[DeclIndex(i)] = e.decl

\* the name print_test gives the method of an entry, line 55
MethodName(t) == t.verb \o t.test_name_pascal_case \o t.test_suffix

DisabledComment ==
  "    // This test is currently DISABLED because the implementation is known not to pass it."

PolarityComments ==
  { "    // This is a \"y\" test, so the file contains valid JSON.",
    "    // This is a \"n\" test, so the file contains invalid JSON." }

---------------------------------------------------------------------------
(* C1 *)

\* C1: the supported banner is the first line of the output and occurs once;
\* the unsupported banner occurs at most once, and once when the run is done;
\* every method printed is the method of an entry, and it stands before the
\* unsupported banner exactly if that entry has supported = true; when the
\* run is done every entry has its method.  So every method of a supported
\* entry stands before every method of an unsupported entry.
C1_SupportedBeforeUnsupported ==
  /\ \A i \in 1..Len(out) : (out[i] = SupportedBanner) <=> (i = 1)
  /\ Cardinality(UnsupportedBannerAt) <= 1
  /\ pc = "done" => Cardinality(UnsupportedBannerAt) = 1
  /\ \A i \in BlockStarts :
       \E t \in Range(tests) :
         /\ out[DeclIndex(i)] = Declaration(t)
         /\ t.supported <=> (\A u \in UnsupportedBannerAt : i < u)
  /\ pc = "done" =>
       \A t \in Range(tests) :
         \E i \in BlockStarts : out[DeclIndex(i)] = Declaration(t)

\* an unsupported line read before a supported one, both rendered
C1_Witness ==
  /\ pc = "done"
  /\ manifest = <<LineFailNFoo2, LinePassYFoo>>
  /\ Cardinality(BlockStarts) = 2

---------------------------------------------------------------------------
(* C2 *)

\* C2: once a malformed data line has been read the run is in the error
\* state with nothing printed; whenever anything has been printed the parse
\* loop is over and every line read was a comment, blank or well formed.
C2_AllOrNothing ==
  /\ (\E k \in 1..Len(manifest) :
        ~IsIgnorable(manifest[k]) /\ Malformed(manifest[k]))
       => (pc = "error" /\ err # "none" /\ out = <<>>)
  /\ pc = "error" => out = <<>>
  /\ out # <<>> =>
       /\ pc \notin {"parse", "error"}
       /\ \A k \in 1..Len(manifest) :
            IsIgnorable(manifest[k]) \/ ~Malformed(manifest[k])

\* a malformed line after two valid data lines
C2_Witness ==
  /\ pc = "error"
  /\ Len(tests) = 2
  /\ manifest[3] = LineBadPolarity
  /\ out = <<>>

---------------------------------------------------------------------------
(* C3 *)

\* C3: while the manifest is read the j-th entry is the j-th data line and
\* its occurrence index is the number of data lines up to it that derive the
\* same identifier, whatever their polarity and supported flag; the indices
\* of the entries of one identifier are 1..n; when the run is done the k-th
\* data line has a method whose name carries no suffix for index 1 and _k
\* for index k >= 2.
C3_OccurrenceIndices ==
  LET D == DataLines
      E == ExpectedMethods(D)
      ids == IdentifiersOf(D)
  IN  pc # "error" =>
        /\ pc = "parse" =>
             /\ Len(tests) = Len(D)
             /\ \A j \in 1..Len(tests) :
                  /\ tests[j].filename = FilenameOf(D[j])
                  /\ tests[j].test_instance = OccurrenceOf(ids, j)
        /\ \A j \in 1..Len(tests) :
             LET same == { i \in 1..Len(tests) :
                             tests[i].test_name_pascal_case
                               = tests[j].test_name_pascal_case }
             IN  { tests[i].test_instance : i \in same }
                   = 1..Cardinality(same)
        /\ pc = "done" =>
             \A k \in 1..Len(D) : \E i \in BlockStarts : Renders(i, E[k])

\* Foo derived by a supported y line, an unsupported n line and a supported
\* y line: the second and third render as noFoo_2 and yesFoo_3
C3_Witness ==
  /\ pc = "done"
  /\ manifest = <<LinePassYFoo, LineLowerPassNFoo, LinePassYFooPunct>>
  /\ \E i \in BlockStarts :
       out[DeclIndex(i)] = "public void noFoo_2() throws IOException {"
  /\ \E i \in BlockStarts :
       out[DeclIndex(i)] = "public void yesFoo_3() throws IOException {"
  /\ \E i \in BlockStarts :
       out[DeclIndex(i)] = "public void yesFoo() throws IOException {"

---------------------------------------------------------------------------
(* C4 *)

\* C4: no two entries have the same method name verb + identifier + suffix,
\* and no two methods printed have the same declaration.
C4_DistinctNames ==
  /\ \A i, j \in 1..Len(tests) :
       i # j => MethodName(tests[i]) # MethodName(tests[j])
  /\ \A i, j \in BlockStarts :
       i # j => out[DeclIndex(i)] # out[DeclIndex(j)]

\* the identifier Foo twice and the identifier Foo2, all with the verb no:
\* noFoo, noFoo_2 and noFoo2
C4_Witness ==
  /\ pc = "done"
  /\ manifest = <<LineLowerPassNFoo, LineLowerPassNFoo, LineFailNFoo2>>
  /\ Cardinality(BlockStarts) = 3
  /\ \E i \in BlockStarts :
       out[DeclIndex(i)] = "public void noFoo_2() throws IOException {"
  /\ \E i \in BlockStarts :
       out[DeclIndex(i)] = "public void noFoo2() throws IOException {"

---------------------------------------------------------------------------
(* C5 *)

\* the maximal runs of ASCII letters and digits of s, as <<first, last>>
TokenSpans(s) ==
  { p \in (1..Len(s)) \X (1..Len(s)) :
      /\ p[1] <= p[2]
      /\ \A k \in p[1]..p[2] : IsAlnum(s[k])
      /\ p[1] = 1 \/ ~IsAlnum(s[p[1] - 1])
      /\ p[2] = Len(s) \/ ~IsAlnum(s[p[2] + 1]) }

RECURSIVE SpansInOrder(_, _)
SpansInOrder(s, S) ==
  IF S = {} THEN <<>>
  ELSE LET first == CHOOSE p \in S : \A q \in S : p[1] <= q[1]
       IN  <<SubSeq(s, first[1], first[2])>> \o SpansInOrder(s, S \ {first})

Tokens(s) == SpansInOrder(s, TokenSpans(s))

FoldCase(tokens) == [ k \in 1..Len(tokens) |-> lower(tokens[k]) ]

FirstUpperRestLower(token) ==
  [ m \in 1..Len(token) |->
      IF m = 1 THEN UpperChar(token[m]) ELSE LowerChar(token[m]) ]

ExpectedIdentifier(s) ==
  join([ k \in 1..Len(Tokens(s)) |-> FirstUpperRestLower(Tokens(s)[k]) ])

\* C5: the identifier of a subject name is the concatenation of its maximal
\* ASCII-alphanumeric tokens, each with its first character upper-cased and
\* the rest lower-cased; two names whose token sequences are equal up to
\* letter case have the same identifier; foo-bar and FOO_BAR, the subjects
\* of y_foo-bar.json and y_FOO_BAR.json, both yield FooBar.
C5_IdentifierInsensitive ==
  pcId = "derived" =>
    /\ idA = ExpectedIdentifier(nameA)
    /\ idB = ExpectedIdentifier(nameB)
    /\ FoldCase(Tokens(nameA)) = FoldCase(Tokens(nameB)) => idA = idB
    /\ Identifier(test_name(<<"y","_","f","o","o","-","b","a","r",".","j","s","o","n">>))
         = <<"F","o","o","B","a","r">>
    /\ Identifier(test_name(<<"y","_","F","O","O","_","B","A","R",".","j","s","o","n">>))
         = <<"F","o","o","B","a","r">>

\* two names that differ in case and in every delimiter
C5_Witness ==
  /\ pcId = "derived"
  /\ nameA = <<"a","A","-">>
  /\ nameB = <<"_","A","a">>
  /\ idA = <<"A","a">>
  /\ idB = <<"A","a">>

---------------------------------------------------------------------------
(* C6 *)

\* C6: a comment or blank line never ends the run; while the run has not
\* failed there is one entry per data line read and the counters are those
\* of the data lines alone; when the run is done the number of methods
\* printed is the number of data lines, and the k-th data line has the
\* method its place among the data lines alone gives it.
C6_OneMethodPerDataLine ==
  LET D == DataLines
      E == ExpectedMethods(D)
      ids == IdentifiersOf(D)
  IN  /\ pc = "error" => ~IsIgnorable(manifest[Len(manifest)])
      /\ pc # "error" =>
           /\ Len(tests) = Len(D)
           /\ DOMAIN tests_by_name = Range(ids)
           /\ \A name \in DOMAIN tests_by_name :
                tests_by_name[name] =
                  Cardinality({ k \in 1..Len(D) : ids[k] = name })
      /\ pc = "done" =>
           /\ Cardinality(BlockStarts) = Len(D)
           /\ Cardinality({ i \in 1..Len(out) : out[i] = "@Test" }) = Len(D)
           /\ \A k \in 1..Len(D) : \E i \in BlockStarts : Renders(i, E[k])

\* a comment that holds a colon, PASS and a filename, and a blank line,
\* around one data line
C6_Witness ==
  /\ pc = "done"
  /\ manifest = <<LineCommentData, LinePassYFoo, LineBlank>>
  /\ Cardinality(BlockStarts) = 1
  /\ tests_by_name[<<"F","o","o">>] = 1

---------------------------------------------------------------------------
(* C7 *)

\* C7: when the run is done, the method of a data line that holds PASS
\* anywhere stands before the unsupported banner and carries no @Ignore, and
\* the method of any other data line stands after the banner and carries
\* @Ignore.
C7_PassSubstring ==
  LET D == DataLines
      E == ExpectedMethods(D)
  IN  pc = "done" =>
        \A k \in 1..Len(D) :
          \E i \in BlockStarts :
            /\ Renders(i, E[k])
            /\ out[i + 3] = "@Test"
            /\ \E u \in UnsupportedBannerAt :
                 IF HasPass(D[k])
                 THEN i < u /\ ~IsIgnoredAt(i)
                 ELSE u < i /\ IsIgnoredAt(i)

\* FAIL: y_PASS.json is rendered as a supported test, pass: n_foo.json is not
C7_Witness ==
  /\ pc = "done"
  /\ manifest = <<LineLowerPassNFoo, LineFailYPass>>
  /\ out[6] = "public void yesPass() throws IOException {"
  /\ out[26] = "@Ignore"

---------------------------------------------------------------------------
(* C8 *)

\* C8: the method of an entry with supported = true holds neither the
\* comment that the test is disabled nor the comment that states the
\* polarity in words.
C8_CommentsOnlyWhenUnsupported ==
  \A i \in BlockStarts :
    (\E t \in Range(tests) :
       out[DeclIndex(i)] = Declaration(t) /\ t.supported)
      => \A j \in i..(DeclIndex(i) + 14) :
           /\ out[j] # DisabledComment
           /\ out[j] \notin PolarityComments

---------------------------------------------------------------------------
(* C9 *)

\* C9: when the run is done every data line has a method whose name starts
\* with yes and whose body asserts assertNull if the filename starts with y,
\* and whose name starts with no and whose body asserts assertNotNull if it
\* starts with n, whatever the supported flag; the file the body reads is
\* test_dir, '/', and the filename of that line.
C9_Polarity ==
  LET D == DataLines
      E == ExpectedMethods(D)
  IN  pc = "done" =>
        \A k \in 1..Len(D) :
          \E i \in BlockStarts :
            LET d  == DeclIndex(i)
                fn == FilenameOf(D[k])
            IN  /\ Renders(i, E[k])
                /\ out[d + 12] =
                     (IF fn[1] = "y" THEN "    assertNull(problem);"
                      ELSE "    assertNotNull(problem);")
                /\ out[d + 5] =
                     "        JustJson.parseValue(new String(Files.readAllBytes(new File(\""
                       \o Text(test_dir) \o "/" \o Text(fn)
                       \o "\").toPath())));"

\* a supported n test and an unsupported y test
C9_Witness ==
  /\ pc = "done"
  /\ manifest = <<LinePassNBar, LineFailYPass, LineFailNEmpty>>
  /\ test_dir = <<"/","d">>
  /\ out[6] = "public void noBar() throws IOException {"
  /\ out[18] = "    assertNotNull(problem);"
  /\ \E i \in 1..Len(out) : out[i] = "public void no() throws IOException {"

---------------------------------------------------------------------------
(* C10 *)

\* C10: when the run is done, of two data lines with the same supported
\* status the earlier one has its method printed first; when the sort runs,
\* the second and third components of every entry's key are the identifier
\* and the occurrence index of the last data line.
C10_ManifestOrderWithinBlocks ==
  LET D == DataLines
      E == ExpectedMethods(D)
      ids == IdentifiersOf(D)
  IN  /\ pc = "done" =>
           \A a, b \in 1..Len(D) :
             (a < b /\ HasPass(D[a]) = HasPass(D[b]))
               => \E i, j \in BlockStarts :
                    i < j /\ Renders(i, E[a]) /\ Renders(j, E[b])
      /\ (pc = "parse" /\ tests # <<>>) =>
           \A t \in Range(tests) :
             /\ SortKey(t)[2] = ids[Len(D)]
             /\ SortKey(t)[3] = OccurrenceOf(ids, Len(D))

\* Foo, Bar, Foo again in the supported block, in manifest order
C10_Witness ==
  /\ pc = "done"
  /\ manifest = <<LinePassYFoo, LinePassNBar, LinePassYFooPunct>>
  /\ out[6] = "public void yesFoo() throws IOException {"
  /\ out[25] = "public void noBar() throws IOException {"
  /\ out[44] = "public void yesFoo_2() throws IOException {"

=============================================================================
